---------------------------- MODULE Spec2Model ----------------------------
(***************************************************************************)
(* A model of superpyrate/pipeline.py: the luigi task graph that unzips    *)
(* AIS archives, validates the csv files, copies them into postgres,       *)
(* records their provenance, builds the indices and clusters the table.    *)
(*                                                                         *)
(* Two levels of detail share the variables below.                         *)
(*   - IngestSpec follows ValidMessagesToDatabase.run statement by         *)
(*     statement, one worker per cleaned file, against a transactional     *)
(*     store (each connection has its own uncommitted transaction).        *)
(*   - Spec follows whole runs of the pipeline: one action per task body,  *)
(*     scheduled the way the luigi worker schedules them.                  *)
(***************************************************************************)
EXTENDS Naturals, Sequences, FiniteSets, TLC

(***************************************************************************)
(* Names and paths.  A file name is a sequence of tokens ("x", ".", "csv") *)
(* and a path is a sequence of names, relative to LUIGIWORK for the        *)
(* working folder and to the folder of zips for the input.                 *)
(***************************************************************************)

\* The position of the last "." of a name, 0 when there is none.
RECURSIVE LastDot(_, _)
LastDot(name, i) ==
    IF i = 0 THEN 0
    ELSE IF name[i] = "." THEN i ELSE LastDot(name, i - 1)

\* os.path.splitext: the extension starts at the last dot, unless only dots
\* come before it (a leading-dot name such as ".csv" has no extension).
splitext(name) ==
    LET d == LastDot(name, Len(name))
    IN  IF d > 0 /\ \E k \in 1..(d - 1) : name[k] # "."
        THEN <<SubSeq(name, 1, d - 1), SubSeq(name, d, Len(name))>>
        ELSE <<name, <<>> >>

\* os.path.basename / os.path.split(...)[1]: the last component of a path.
basename(path) == path[Len(path)]

\* os.path.join(dir, name)
join(dir, name) == Append(dir, name)

CsvExt == <<".", "csv">>
ZipExt == <<".", "zip">>

\* The name of the archive basename without its extension: the folder name
\* under files/unzipped and the manifest name under tmp/processcsv, tmp/writecsv.
archive_name(zip_file) == splitext(basename(zip_file))[1]

(***************************************************************************)
(* The input: one folder of zips, its entries, and what each archive       *)
(* holds.  Entry and member names are fixed small sets; which members an   *)
(* archive holds is chosen by the initial state.                           *)
(***************************************************************************)
folder_of_zips == << <<"zips">> >>

FolderEntries == { <<"a1", ".", "zip">>, <<"a2", ".", "zip">>, <<"notes", ".", "txt">> }

\* Member names an archive may hold: names that end in ".csv", and names
\* that end in something else (one of them with "csv" in the middle).
CsvNames   == { <<"x", ".", "csv">>, <<"y", ".", "csv">> }
OtherNames == { <<"n", ".", "txt">>, <<"x", ".", "csv", ".", "bak">> }
MemberNames == CsvNames \cup OtherNames

ZipPaths == { join(folder_of_zips, e) : e \in FolderEntries }
ArchivePaths == { z \in ZipPaths : splitext(basename(z))[2] = ZipExt }

unzipped_dir(zip_file) == << <<"files">>, <<"unzipped">>, archive_name(zip_file) >>

\* Every path an extracted member can have: the per-file tasks range over
\* these, whichever of them the discovery then takes for csv files.
AllCsvPaths == { join(unzipped_dir(z), n) : z \in ArchivePaths, n \in MemberNames }

(***************************************************************************)
(* Tasks.  A task identity is its class and its significant parameter; the *)
(* parameter is always a path (RunQueryOnTable: the one-name path of its   *)
(* update_id).  with_db is not significant (line 505): it is no part of    *)
(* the identity and is a value of the run.                                 *)
(***************************************************************************)
Task(kind, arg) == [kind |-> kind, arg |-> arg]

GetZipArchive(z)           == Task("GetZipArchive", z)
GetFolderOfArchives(d)     == Task("GetFolderOfArchives", d)
UnzippedArchive(z)         == Task("UnzippedArchive", z)
ProcessCsv(z)              == Task("ProcessCsv", z)
GetCsvFile(c)              == Task("GetCsvFile", c)
ValidMessages(c)           == Task("ValidMessages", c)
ValidMessagesToDatabase(c) == Task("ValidMessagesToDatabase", c)
LoadCleanedAIS(c)          == Task("LoadCleanedAIS", c)
WriteCsvToDb(z)            == Task("WriteCsvToDb", z)
ProcessZipArchives(d)      == Task("ProcessZipArchives", d)
RunQueryOnTable(u)         == Task("RunQueryOnTable", u)
MakeAllIndices(d)          == Task("MakeAllIndices", d)
ClusterAisClean(d)         == Task("ClusterAisClean", d)

\* The index definitions of the ais_clean table (db.clean_db_spec['indices']):
\* the suffixes; the CLUSTER statement names ais_clean_mmsi_idx.
IndexSuffixes == { "mmsi_idx", "time_idx" }

\* idxn = self.table.lower() + "_" + idx
index_name(idx) == <<"ais_clean", "_", idx>>

\* update_id = self.__class__.__name__ + idxn, as a one-name path
index_update_id(idx) == << <<"MakeAllIndices">> \o index_name(idx) >>

ClusterIndex == index_name("mmsi_idx")

FileKinds == { "GetCsvFile", "ValidMessages", "ValidMessagesToDatabase", "LoadCleanedAIS" }
ArchiveKinds == { "GetZipArchive", "UnzippedArchive", "ProcessCsv", "WriteCsvToDb" }
FolderKinds == { "GetFolderOfArchives", "ProcessZipArchives", "MakeAllIndices", "ClusterAisClean" }

AllTasks ==
    { Task(k, c) : k \in FileKinds, c \in AllCsvPaths }
    \cup { Task(k, z) : k \in ArchiveKinds, z \in ArchivePaths }
    \cup { Task(k, folder_of_zips) : k \in FolderKinds }
    \cup { RunQueryOnTable(index_update_id(i)) : i \in IndexSuffixes }

\* Tasks whose marker is a row of the marker table of the database
\* (PostgresTarget); the marker of every other task is a path.
DbKinds == { "ValidMessagesToDatabase", "LoadCleanedAIS", "RunQueryOnTable", "ClusterAisClean" }

\* The update_id of a database task: RunQueryOnTable passes its own
\* (line 560), the others use the task identity.
update_id(t) ==
    IF t.kind = "RunQueryOnTable" THEN t.arg ELSE << <<t.kind>> >> \o t.arg

\* output(): the path whose existence marks a file-backed task complete.
output(t) ==
    CASE t.kind \in { "GetZipArchive", "GetFolderOfArchives", "GetCsvFile" } -> t.arg
      [] t.kind = "UnzippedArchive" -> unzipped_dir(t.arg)
      [] t.kind = "ProcessCsv" -> << <<"tmp">>, <<"processcsv">>, archive_name(t.arg) >>
      [] t.kind = "WriteCsvToDb" -> << <<"tmp">>, <<"writecsv">>, archive_name(t.arg) >>
      [] t.kind = "ValidMessages" -> << <<"files">>, <<"cleancsv">>, basename(t.arg) >>
      [] t.kind = "ProcessZipArchives" ->
            << <<"tmp">>, <<"archives">>, <<"archive_">> \o basename(t.arg) >>
      [] t.kind = "MakeAllIndices" ->
            << <<"tmp">>, <<"database">>, <<"create_", "ais_clean", "_indexes", ".", "txt">> >>
      [] OTHER -> update_id(t)

\* requires() with the ingest declared on the raw file, as ValidMessages is.
requires_raw_file(t) ==
    CASE t.kind = "UnzippedArchive" -> { GetZipArchive(t.arg) }
      [] t.kind = "ProcessCsv" -> { UnzippedArchive(t.arg) }
      [] t.kind = "WriteCsvToDb" -> { UnzippedArchive(t.arg) }
      [] t.kind = "ValidMessages" -> { GetCsvFile(t.arg) }
      [] t.kind = "ValidMessagesToDatabase" -> { GetCsvFile(t.arg) }
      [] t.kind = "LoadCleanedAIS" -> { ValidMessagesToDatabase(t.arg) }
      [] t.kind = "ProcessZipArchives" -> { GetFolderOfArchives(t.arg) }
      [] t.kind = "MakeAllIndices" -> { ProcessZipArchives(t.arg) }
      [] t.kind = "ClusterAisClean" -> { MakeAllIndices(t.arg) }
      [] OTHER -> {}

\* requires(): the static dependencies of a task.
requires(t) ==
    CASE t.kind = "UnzippedArchive" -> { GetZipArchive(t.arg) }
      [] t.kind = "ProcessCsv" -> { UnzippedArchive(t.arg) }
      [] t.kind = "WriteCsvToDb" -> { UnzippedArchive(t.arg) }
      [] t.kind = "ValidMessages" -> { GetCsvFile(t.arg) }
      [] t.kind = "ValidMessagesToDatabase" -> { ValidMessages(t.arg) }
      [] t.kind = "LoadCleanedAIS" -> { ValidMessagesToDatabase(t.arg) }
      [] t.kind = "ProcessZipArchives" -> { GetFolderOfArchives(t.arg) }
      [] t.kind = "MakeAllIndices" -> { ProcessZipArchives(t.arg) }
      [] t.kind = "ClusterAisClean" -> { MakeAllIndices(t.arg) }
      [] OTHER -> {}

(***************************************************************************)
(* State.                                                                  *)
(***************************************************************************)
VARIABLES
    fs,          \* the paths that exist (input folder and working folder)
    manifest,    \* the lines written to each manifest file, by path
    dbTable,     \* committed: the ais_clean table exists
    dbRows,      \* committed: the csv files whose rows are in ais_clean
    dbSources,   \* committed: the number of ais_sources rows of each file name
    dbMarks,     \* committed: the update_ids in the marker table
    dbIndexes,   \* committed: the indices of ais_clean
    dbClusters,  \* committed: how many CLUSTER statements were committed
    status,      \* this run's scheduler view of each task
    dyn,         \* this run: the dynamic children each suspended parent waits for
    emitted,     \* the batch of children each parent yielded when its body last ran
    ran,         \* this run: the tasks whose body was executed
    run,         \* this run: its phase, root task, with_db flag, and the markers at its start
    nruns,       \* the number of runs launched so far
    ing,         \* per csv file: where its ValidMessagesToDatabase.run stands
    txn,         \* per csv file: the uncommitted transaction of that run's connection
    environ,     \* os.environ: the configured names and their values
    lookup       \* the last call of a configuration helper and what it gave

dbVars   == <<dbTable, dbRows, dbSources, dbMarks, dbIndexes, dbClusters>>
fileVars == <<fs, manifest>>
runVars  == <<status, dyn, emitted, ran, run, nruns>>
ingVars  == <<ing, txn>>
cfgVars  == <<environ, lookup>>
vars     == <<fileVars, dbVars, runVars, ingVars, cfgVars>>

\* complete(): the task's output exists.
complete(t) ==
    IF t.kind \in DbKinds THEN update_id(t) \in dbMarks ELSE output(t) \in fs

\* The entries of a directory: the last names of the paths right below it.
listdir(dir) ==
    { basename(p) : p \in { q \in fs : Len(q) = Len(dir) + 1 /\ SubSeq(q, 1, Len(dir)) = dir } }

(***************************************************************************)
(* Configuration helpers (lines 140-175).  A value is a path, and the      *)
(* empty string is the empty path; a name os.environ does not hold is      *)
(* outside DOMAIN environ.  An optional argument is <<>> for None and      *)
(* <<v>> for the value v.                                                  *)
(***************************************************************************)
EnvNames == { "LUIGIWORK", "DBHOSTNAME", "DBNAME", "DBUSER", "DBUSERPASS" }

EnvValues == { <<>>, << <<"v">> >> }

\* os.path.dirname(path)
dirname(path) == IF Len(path) = 0 THEN path ELSE SubSeq(path, 1, Len(path) - 1)

\* get_environment_variable(name): os.environ[name], or '' and an error in
\* the log when the lookup raises KeyError.
get_environment_variable(name) ==
    IF name \in DOMAIN environ
    THEN [value |-> environ[name], logged |-> FALSE, raised |-> "none"]
    ELSE [value |-> <<>>, logged |-> TRUE, raised |-> "none"]

\* get_working_folder(folder_of_zips=None): LUIGIWORK when it is not empty,
\* otherwise two levels above the folder given, and RuntimeError when no
\* folder is given.
get_working_folder(folder) ==
    LET environment_variable == get_environment_variable("LUIGIWORK")
    IN  IF environment_variable.value # <<>>
        THEN [value |-> environment_variable.value,
              logged |-> environment_variable.logged, raised |-> "none"]
        ELSE IF folder = <<>>
             THEN [value |-> <<>>, logged |-> environment_variable.logged,
                   raised |-> "RuntimeError"]
             ELSE [value |-> dirname(dirname(folder[1])),
                   logged |-> environment_variable.logged, raised |-> "none"]

\* The environment the pipeline runs in: every name set, none empty.
ConfiguredEnviron == [n \in EnvNames |-> << <<"v">> >>]

NoLookup == [fn |-> "none", arg |-> <<>>,
             result |-> [value |-> <<>>, logged |-> FALSE, raised |-> "none"]]

(***************************************************************************)
(* ValidMessagesToDatabase.run, statement by statement (lines 379-414).    *)
(* One connection per execution; what it wrote is in txn until commit.     *)
(***************************************************************************)
MaxIngestRuns == 3

\* for attempt in range(2)
MaxAttempts == 2

NoTxn == [table |-> FALSE, rows |-> FALSE, mark |-> FALSE]

Idle == [pc |-> "idle", attempt |-> 0, copies |-> 0, creates |-> 0,
         cold |-> FALSE, dup |-> FALSE, err |-> "none", conn |-> "none"]

\* The except clause without its test of the attempt.
except_copy_any_attempt(exc, attempt) ==
    IF exc = "undefined_table" THEN "create" ELSE "raise"

\* The except clause re-raising whatever it caught.
except_copy_reraise(exc, attempt) == "raise"

\* What the except clause does with an exception of the COPY (lines 399-406):
\* only ProgrammingError is caught, and only undefined-table on the first
\* attempt leads to create_table.
except_copy(exc, attempt) ==
    IF exc = "undefined_table" /\ attempt = 0 THEN "create" ELSE "raise"

\* The exceptions a COPY against this store can end in ("ok": none).
\* The table is visible to a connection when it is committed or was created
\* in the connection's own transaction.
copy_outcomes(f) ==
    IF dbTable \/ txn[f].table
    THEN { "ok", "programming_error", "other_error" }
    ELSE { "undefined_table" }

\* The engine starts run() of a task that is not complete and whose
\* requirement is: line 387 never raises (table and columns are set),
\* line 390 opens the connection, line 392 the cleaned file.
ValidMessagesToDatabase_run(f) ==
    /\ ing[f].pc = "idle"
    /\ ing[f].conn = "none"
    /\ ~ complete(ValidMessagesToDatabase(f))
    /\ \A d \in requires(ValidMessagesToDatabase(f)) : complete(d)
    /\ ing' = [ing EXCEPT ![f] = [Idle EXCEPT !.pc = "copy", !.conn = "open"]]
    /\ txn' = [txn EXCEPT ![f] = NoTxn]
    /\ nruns' = nruns + 1
    /\ nruns < MaxIngestRuns
    /\ UNCHANGED <<fileVars, dbVars, status, dyn, emitted, ran, run, cfgVars>>

\* self.copy(cursor, csvfile) and the except / else clauses around it.
ValidMessagesToDatabase_copy(f) ==
    /\ ing[f].pc = "copy"
    /\ \E exc \in copy_outcomes(f) :
          LET r == [ing[f] EXCEPT !.copies = @ + 1,
                                  !.cold = @ \/ (exc = "undefined_table" /\ ing[f].copies = 0)]
          IN  IF exc = "ok"
              THEN \* else: break
                   /\ ing' = [ing EXCEPT ![f] = [r EXCEPT !.pc = "touch"]]
                   /\ txn' = [txn EXCEPT ![f].rows = TRUE]
              ELSE IF exc # "other_error" /\ except_copy(exc, ing[f].attempt) = "create"
              THEN \* connection.reset() rolls the transaction back
                   /\ ing' = [ing EXCEPT ![f] = [r EXCEPT !.pc = "create"]]
                   /\ txn' = [txn EXCEPT ![f] = NoTxn]
              ELSE \* raise: the task fails; run() neither rolls the
                   \* connection back nor closes it, and never commits it
                   /\ ing' = [ing EXCEPT ![f] = [r EXCEPT !.pc = "failed", !.err = "copy"]]
                   /\ txn' = txn
    /\ UNCHANGED <<fileVars, dbVars, runVars, cfgVars>>

\* self.create_table(connection), inherited from luigi: it may create the
\* table in the connection's transaction, raise, or return without creating
\* it.  CREATE TABLE waits for an uncommitted CREATE TABLE of another
\* connection and fails when the table is committed by then; the call is
\* not guarded, so what it raises fails the task.  dup records that the
\* table was committed by another task when create_table was called.
ValidMessagesToDatabase_create_table(f) ==
    /\ ing[f].pc = "create"
    /\ \A g \in DOMAIN txn : g # f => ~ txn[g].table
    /\ \E res \in (IF dbTable THEN { "raised", "nothing" }
                               ELSE { "created", "raised", "nothing" }) :
          LET r == [ing[f] EXCEPT !.creates = @ + 1, !.dup = dbTable]
              a == ing[f].attempt + 1
          IN  IF res = "raised"
              THEN /\ ing' = [ing EXCEPT ![f] = [r EXCEPT !.pc = "failed", !.err = "create"]]
                   /\ txn' = txn
              ELSE \* next round of the loop, or the loop is exhausted
                   /\ ing' = [ing EXCEPT ![f] =
                                [r EXCEPT !.attempt = a,
                                          !.pc = IF a < MaxAttempts THEN "copy" ELSE "touch"]]
                   /\ txn' = [txn EXCEPT ![f].table = (res = "created")]
    /\ UNCHANGED <<fileVars, dbVars, runVars, cfgVars>>

\* touch() called without the connection: the marker row is inserted through
\* a connection of its own, in autocommit mode.
ValidMessagesToDatabase_touch_autocommit(f) ==
    /\ ing[f].pc = "touch"
    /\ ing' = [ing EXCEPT ![f].pc = "commit"]
    /\ dbMarks' = dbMarks \cup { update_id(ValidMessagesToDatabase(f)) }
    /\ UNCHANGED <<txn, fileVars, dbTable, dbRows, dbSources, dbIndexes, dbClusters, runVars, cfgVars>>

\* self.output().touch(connection): the marker row is inserted through the
\* connection of the COPY, so into the same transaction.
ValidMessagesToDatabase_touch(f) ==
    /\ ing[f].pc = "touch"
    /\ \E ok \in BOOLEAN :
          IF ok
          THEN /\ ing' = [ing EXCEPT ![f].pc = "commit"]
               /\ txn' = [txn EXCEPT ![f].mark = TRUE]
          ELSE /\ ing' = [ing EXCEPT ![f].pc = "failed", ![f].err = "touch"]
               /\ txn' = txn
    /\ UNCHANGED <<fileVars, dbVars, runVars, cfgVars>>

\* connection.commit(): everything the transaction holds becomes visible
\* at once.
ValidMessagesToDatabase_commit(f) ==
    /\ ing[f].pc = "commit"
    /\ ing' = [ing EXCEPT ![f].pc = "close"]
    /\ txn' = [txn EXCEPT ![f] = NoTxn]
    /\ dbTable' = (dbTable \/ txn[f].table)
    /\ dbRows' = (IF txn[f].rows THEN dbRows \cup {f} ELSE dbRows)
    /\ dbMarks' = (IF txn[f].mark
                   THEN dbMarks \cup { update_id(ValidMessagesToDatabase(f)) }
                   ELSE dbMarks)
    /\ UNCHANGED <<fileVars, dbSources, dbIndexes, dbClusters, runVars, cfgVars>>

\* connection.close()
ValidMessagesToDatabase_close(f) ==
    /\ ing[f].pc = "close"
    /\ ing' = [ing EXCEPT ![f].pc = "done", ![f].conn = "closed"]
    /\ UNCHANGED <<txn, fileVars, dbVars, runVars, cfgVars>>

\* The process is killed while run() executes: the server rolls the
\* open transaction back.
IngestCrash(f) ==
    /\ ing[f].pc \in { "copy", "create", "touch", "commit", "close" }
    /\ ing' = [ing EXCEPT ![f] = Idle]
    /\ txn' = [txn EXCEPT ![f] = NoTxn]
    /\ UNCHANGED <<fileVars, dbVars, runVars, cfgVars>>

\* The process of a finished execution ends (an open connection dies with
\* it, uncommitted); a later run may schedule the task again.
IngestOver(f) ==
    /\ ing[f].pc \in { "done", "failed" }
    /\ ing' = [ing EXCEPT ![f] = Idle]
    /\ txn' = [txn EXCEPT ![f] = NoTxn]
    /\ UNCHANGED <<fileVars, dbVars, runVars, cfgVars>>

\* The cleaned files of the detailed ingest: one csv file of each archive.
IngestFiles == { c \in AllCsvPaths : basename(c) = <<"x", ".", "csv">> }

NoRun == [phase |-> "idle", root |-> ClusterAisClean(folder_of_zips),
          with_db |-> FALSE, marks |-> {}]

IngestInit ==
    /\ fs = { output(ValidMessages(f)) : f \in IngestFiles }
    /\ manifest = <<>>
    /\ dbTable \in BOOLEAN
    /\ dbRows = {}
    /\ dbSources = [n \in MemberNames |-> 0]
    /\ dbMarks = {}
    /\ dbIndexes = {}
    /\ dbClusters = 0
    /\ status = [t \in AllTasks |-> "new"]
    /\ dyn = [t \in AllTasks |-> {}]
    /\ emitted = [t \in AllTasks |-> {}]
    /\ ran = {}
    /\ run = NoRun
    /\ nruns = 0
    /\ ing = [c \in AllCsvPaths |-> Idle]
    /\ txn = [c \in AllCsvPaths |-> NoTxn]
    /\ environ = ConfiguredEnviron
    /\ lookup = NoLookup

IngestNext ==
    \E f \in AllCsvPaths :
        \/ ValidMessagesToDatabase_run(f)
        \/ ValidMessagesToDatabase_copy(f)
        \/ ValidMessagesToDatabase_create_table(f)
        \/ ValidMessagesToDatabase_touch(f)
        \/ ValidMessagesToDatabase_commit(f)
        \/ ValidMessagesToDatabase_close(f)
        \/ IngestCrash(f)
        \/ IngestOver(f)

IngestSpec == IngestInit /\ [][IngestNext]_vars

(***************************************************************************)
(* Runs of the pipeline.  luigi adds the root task and, below every task   *)
(* that is not complete, its requirements; a task that is complete when it *)
(* is added is done and nothing below it is looked at.  A pending task     *)
(* runs once everything it waits for is done.  A body that yields children *)
(* which are not all complete hands them to the scheduler and is run again *)
(* from its first line when they are done; it goes past the yield only     *)
(* when every child is complete.  A failed task is not run again in the    *)
(* same run, so whatever waits for it stays pending.                       *)
(***************************************************************************)
MaxRuns == 2

\* The tasks luigi looks at when the tasks S are added: S and, below every
\* task that is new to the scheduler and not complete, its requirements.
RECURSIVE Discovered(_, _)
Discovered(st, S) ==
    LET more == S \cup UNION { requires(t) :
                                 t \in { s \in S : st[s] = "new" /\ ~ complete(s) } }
    IN  IF more = S THEN S ELSE Discovered(st, more)

\* The scheduler's view after the tasks S were added.
Scheduled(st, S) ==
    LET found == Discovered(st, S)
    IN  [t \in AllTasks |->
            IF st[t] = "new" /\ t \in found
            THEN (IF complete(t) THEN "done" ELSE "pending")
            ELSE st[t]]

Runnable(t) ==
    /\ run.phase = "running"
    /\ status[t] = "pending"
    /\ \A d \in requires(t) \cup dyn[t] : status[d] = "done"

\* The body of t ran to its end: the task is done or failed.
Ends(t, ok) ==
    /\ status' = [status EXCEPT ![t] = IF ok THEN "done" ELSE "failed"]
    /\ ran' = ran \cup {t}
    /\ UNCHANGED <<dyn, run, nruns>>

\* The body of parent t reached its yield with the batch of children.
\* All complete: the body goes on to its end.  Otherwise the children are
\* scheduled and t waits for them.
Yields(t, children) ==
    /\ emitted' = [emitted EXCEPT ![t] = children]
    /\ ran' = ran \cup {t}
    /\ IF \A c \in children : complete(c)
       THEN /\ status' = [status EXCEPT ![t] = "done"]
            /\ dyn' = dyn
       ELSE /\ status' = Scheduled(status, children)
            /\ dyn' = [dyn EXCEPT ![t] = children]
    /\ UNCHANGED <<run, nruns>>

\* with self.output().open('w') as outfile: outfile.write(lines), done when
\* the body went past its yield.
WritesManifest(t, children, lines) ==
    IF \A c \in children : complete(c)
    THEN /\ fs' = fs \cup { output(t) }
         /\ manifest' = (output(t) :> lines) @@ manifest
    ELSE UNCHANGED <<fs, manifest>>

\* A run is launched on a root task ("luigi <Task> [--with_db]").
Launch(root, with_db) ==
    /\ run.phase = "idle"
    /\ nruns < MaxRuns
    /\ nruns' = nruns + 1
    /\ run' = [phase |-> "running", root |-> root, with_db |-> with_db,
               marks |-> fs \cup dbMarks]
    /\ status' = Scheduled([t \in AllTasks |-> "new"], {root})
    /\ dyn' = [t \in AllTasks |-> {}]
    /\ ran' = {}
    /\ UNCHANGED <<emitted, fileVars, dbVars, ingVars, cfgVars>>

\* The run ends: nothing is left to run, or the process is killed.  Task
\* bodies write the database in one transaction, so a kill inside one
\* leaves what the state before it shows.
EndRun ==
    /\ run.phase = "running"
    /\ run' = NoRun
    /\ status' = [t \in AllTasks |-> "new"]
    /\ dyn' = [t \in AllTasks |-> {}]
    /\ ran' = {}
    /\ UNCHANGED <<nruns, emitted, fileVars, dbVars, ingVars, cfgVars>>

\* The worker exits because no task can run any more.
Quiescent == run.phase = "running" /\ \A t \in AllTasks : ~ Runnable(t)

(***************************************************************************)
(* The task bodies.  res is how the external action of the body ends.      *)
(***************************************************************************)

\* 7za e <zip> -o<output folder> -y.  The members of an archive are the
\* paths below the archive's own path.  A failed extraction may leave the
\* output folder behind with some of the members.
UnzippedArchive_run(z, res) ==
    LET t == UnzippedArchive(z)
        dir == output(t)
        members == { join(dir, n) : n \in listdir(z) }
    IN  /\ Runnable(t)
        /\ CASE res = "ok" -> fs' = fs \cup {dir} \cup members
             [] res = "partial" ->
                    \E some \in SUBSET members :
                        some # members /\ fs' = fs \cup {dir} \cup some
             [] OTHER -> fs' = fs
        /\ Ends(t, res = "ok")
        /\ UNCHANGED <<manifest, emitted, dbVars, ingVars, cfgVars>>

\* The test written as: '.csv' in csvfile
is_csv_substring(name) ==
    \E k \in 1..(Len(name) - 1) : name[k] = "." /\ name[k + 1] = "csv"

\* os.path.splitext(csvfile)[1] == '.csv'
is_csv(name) == splitext(name)[2] = CsvExt

\* The loop over os.listdir(self.input().fn) of ProcessCsv.run and
\* WriteCsvToDb.run.
list_of_csvpaths(dir) == { join(dir, e) : e \in { n \in listdir(dir) : is_csv(n) } }

\* ProcessCsv.run calling the run() of its children itself instead of
\* yielding them to the scheduler.
ProcessCsv_run_inline(z) ==
    LET t == ProcessCsv(z)
        paths == list_of_csvpaths(output(UnzippedArchive(z)))
        children == { ValidMessages(c) : c \in paths }
    IN  /\ Runnable(t)
        /\ emitted' = [emitted EXCEPT ![t] = children]
        /\ ran' = ran \cup {t} \cup children
        /\ status' = [status EXCEPT ![t] = "done"]
        /\ fs' = fs \cup { output(c) : c \in children } \cup { output(t) }
        /\ manifest' = (output(t) :> paths) @@ manifest
        /\ UNCHANGED <<dyn, run, nruns, dbVars, ingVars, cfgVars>>

\* ProcessCsv.run handing its children to the scheduler and writing its
\* manifest without waiting for them.
ProcessCsv_run_no_wait(z) ==
    LET t == ProcessCsv(z)
        paths == list_of_csvpaths(output(UnzippedArchive(z)))
        children == { ValidMessages(c) : c \in paths }
    IN  /\ Runnable(t)
        /\ emitted' = [emitted EXCEPT ![t] = children]
        /\ ran' = ran \cup {t}
        /\ status' = [Scheduled(status, children) EXCEPT ![t] = "done"]
        /\ fs' = fs \cup { output(t) }
        /\ manifest' = (output(t) :> paths) @@ manifest
        /\ UNCHANGED <<dyn, run, nruns, dbVars, ingVars, cfgVars>>

ProcessCsv_run(z) ==
    LET t == ProcessCsv(z)
        paths == list_of_csvpaths(output(UnzippedArchive(z)))
        children == { ValidMessages(c) : c \in paths }
    IN  /\ Runnable(t)
        /\ Yields(t, children)
        /\ WritesManifest(t, children, paths)
        /\ UNCHANGED <<dbVars, ingVars, cfgVars>>

\* WriteCsvToDb.run writing its manifest before the yield.
WriteCsvToDb_run_manifest_first(z) ==
    LET t == WriteCsvToDb(z)
        paths == list_of_csvpaths(output(UnzippedArchive(z)))
        children == { LoadCleanedAIS(c) : c \in paths }
    IN  /\ Runnable(t)
        /\ Yields(t, children)
        /\ fs' = fs \cup { output(t) }
        /\ manifest' = (output(t) :> paths) @@ manifest
        /\ UNCHANGED <<dbVars, ingVars, cfgVars>>

WriteCsvToDb_run(z) ==
    LET t == WriteCsvToDb(z)
        paths == list_of_csvpaths(output(UnzippedArchive(z)))
        children == { LoadCleanedAIS(c) : c \in paths }
    IN  /\ Runnable(t)
        /\ Yields(t, children)
        /\ WritesManifest(t, children, paths)
        /\ UNCHANGED <<dbVars, ingVars, cfgVars>>

\* produce_valid_csv_file(infile, outfile): it writes outfile itself, so a
\* validator that fails may leave an outfile behind.
ValidMessages_run(c, res) ==
    LET t == ValidMessages(c)
    IN  /\ Runnable(t)
        /\ fs' = (IF res \in { "ok", "partial" } THEN fs \cup { output(t) } ELSE fs)
        /\ Ends(t, res = "ok")
        /\ UNCHANGED <<manifest, emitted, dbVars, ingVars, cfgVars>>

\* ValidMessagesToDatabase.run as a whole (its steps are above): it commits
\* rows and marker, and the table when it had to create it, or nothing.
Ingest(c, res) ==
    LET t == ValidMessagesToDatabase(c)
    IN  /\ Runnable(t)
        /\ IF res = "ok"
           THEN /\ dbTable' = TRUE
                /\ dbRows' = dbRows \cup {c}
                /\ dbMarks' = dbMarks \cup { update_id(t) }
           ELSE UNCHANGED <<dbTable, dbRows, dbMarks>>
        /\ Ends(t, res = "ok")
        /\ UNCHANGED <<fileVars, emitted, dbSources, dbIndexes, dbClusters, ingVars, cfgVars>>

\* LoadCleanedAIS.run: INSERT INTO ais_sources a row whose filename is the
\* base name of the csv file, touch, commit.
LoadCleanedAIS_run(c, res) ==
    LET t == LoadCleanedAIS(c)
    IN  /\ Runnable(t)
        /\ IF res = "ok"
           THEN /\ dbSources' = [dbSources EXCEPT ![basename(c)] = @ + 1]
                /\ dbMarks' = dbMarks \cup { update_id(t) }
           ELSE UNCHANGED <<dbSources, dbMarks>>
        /\ Ends(t, res = "ok")
        /\ UNCHANGED <<fileVars, emitted, dbTable, dbRows, dbIndexes, dbClusters, ingVars, cfgVars>>

\* ProcessZipArchives.run yielding its children one at a time, the first
\* archive first, instead of as one batch.
ProcessZipArchives_run_one_by_one(d) ==
    LET t == ProcessZipArchives(d)
        list_of_archives == { join(d, e) : e \in listdir(d) }
        archives == { a \in list_of_archives : splitext(basename(a))[2] = ZipExt }
        child(arc) == IF run.with_db THEN WriteCsvToDb(arc) ELSE ProcessCsv(arc)
        children == { child(arc) : arc \in archives }
        first == join(d, <<"a1", ".", "zip">>)
        batch == IF first \in archives /\ ~ complete(child(first))
                 THEN { child(first) }
                 ELSE children
    IN  /\ Runnable(t)
        /\ Yields(t, batch)
        /\ WritesManifest(t, batch, list_of_archives)
        /\ UNCHANGED <<dbVars, ingVars, cfgVars>>

\* ProcessZipArchives.run writing its manifest whatever became of the
\* children it yielded.
ProcessZipArchives_run_unconditional(d) ==
    LET t == ProcessZipArchives(d)
        list_of_archives == { join(d, e) : e \in listdir(d) }
        archives == { a \in list_of_archives : splitext(basename(a))[2] = ZipExt }
        children == IF run.with_db
                    THEN { WriteCsvToDb(arc) : arc \in archives }
                    ELSE { ProcessCsv(arc) : arc \in archives }
    IN  /\ Runnable(t)
        /\ Yields(t, children)
        /\ fs' = fs \cup { output(t) }
        /\ manifest' = (output(t) :> list_of_archives) @@ manifest
        /\ UNCHANGED <<dbVars, ingVars, cfgVars>>

\* ProcessZipArchives.run: the children are built from the entries that end
\* in ".zip", the manifest is written from every entry of the folder.
ProcessZipArchives_run(d) ==
    LET t == ProcessZipArchives(d)
        list_of_archives == { join(d, e) : e \in listdir(d) }
        archives == { a \in list_of_archives : splitext(basename(a))[2] = ZipExt }
        children == IF run.with_db
                    THEN { WriteCsvToDb(arc) : arc \in archives }
                    ELSE { ProcessCsv(arc) : arc \in archives }
    IN  /\ Runnable(t)
        /\ Yields(t, children)
        /\ WritesManifest(t, children, list_of_archives)
        /\ UNCHANGED <<dbVars, ingVars, cfgVars>>

\* MakeAllIndices.run ending after its yield without writing its output.
MakeAllIndices_run_no_manifest(d) ==
    LET t == MakeAllIndices(d)
        children == { RunQueryOnTable(index_update_id(i)) : i \in IndexSuffixes }
    IN  /\ Runnable(t)
        /\ Yields(t, children)
        /\ UNCHANGED <<fileVars, dbVars, ingVars, cfgVars>>

\* MakeAllIndices.run: one RunQueryOnTable per index definition.
MakeAllIndices_run(d) ==
    LET t == MakeAllIndices(d)
        children == { RunQueryOnTable(index_update_id(i)) : i \in IndexSuffixes }
    IN  /\ Runnable(t)
        /\ Yields(t, children)
        /\ WritesManifest(t, children, { << <<"ais_clean">> >> })
        /\ UNCHANGED <<dbVars, ingVars, cfgVars>>

\* The CREATE INDEX executed on an autocommit connection: the index is
\* committed before the touch, which may then fail.
RunQueryOnTable_run_autocommit(i, res) ==
    LET t == RunQueryOnTable(index_update_id(i))
        ok == dbTable /\ index_name(i) \notin dbIndexes
    IN  /\ Runnable(t)
        /\ dbIndexes' = (IF ok THEN dbIndexes \cup { index_name(i) } ELSE dbIndexes)
        /\ dbMarks' = (IF ok /\ res = "ok" THEN dbMarks \cup { update_id(t) } ELSE dbMarks)
        /\ Ends(t, ok /\ res = "ok")
        /\ UNCHANGED <<fileVars, emitted, dbTable, dbRows, dbSources, dbClusters, ingVars, cfgVars>>

\* RunQueryOnTable (PostgresQuery.run): execute the CREATE INDEX, touch,
\* commit.  The statement fails when the table is missing or the index
\* exists.
RunQueryOnTable_run(i, res) ==
    LET t == RunQueryOnTable(index_update_id(i))
        ok == res = "ok" /\ dbTable /\ index_name(i) \notin dbIndexes
    IN  /\ Runnable(t)
        /\ IF ok
           THEN /\ dbIndexes' = dbIndexes \cup { index_name(i) }
                /\ dbMarks' = dbMarks \cup { update_id(t) }
           ELSE UNCHANGED <<dbIndexes, dbMarks>>
        /\ Ends(t, ok)
        /\ UNCHANGED <<fileVars, emitted, dbTable, dbRows, dbSources, dbClusters, ingVars, cfgVars>>

\* The CLUSTER executed on an autocommit connection: it is committed before
\* the touch, which may then fail.
ClusterAisClean_run_autocommit(d, res) ==
    LET t == ClusterAisClean(d)
        ok == dbTable /\ ClusterIndex \in dbIndexes
    IN  /\ Runnable(t)
        /\ dbClusters' = (IF ok THEN dbClusters + 1 ELSE dbClusters)
        /\ dbMarks' = (IF ok /\ res = "ok" THEN dbMarks \cup { update_id(t) } ELSE dbMarks)
        /\ Ends(t, ok /\ res = "ok")
        /\ UNCHANGED <<fileVars, emitted, dbTable, dbRows, dbSources, dbIndexes, ingVars, cfgVars>>

\* ClusterAisClean (PostgresQuery.run): execute the CLUSTER, touch, commit.
\* The statement fails when the table or the index it names is missing.
ClusterAisClean_run(d, res) ==
    LET t == ClusterAisClean(d)
        ok == res = "ok" /\ dbTable /\ ClusterIndex \in dbIndexes
    IN  /\ Runnable(t)
        /\ IF ok
           THEN /\ dbClusters' = dbClusters + 1
                /\ dbMarks' = dbMarks \cup { update_id(t) }
           ELSE UNCHANGED <<dbClusters, dbMarks>>
        /\ Ends(t, ok)
        /\ UNCHANGED <<fileVars, emitted, dbTable, dbRows, dbSources, dbIndexes, ingVars, cfgVars>>

\* The entry points: the folder stage with or without the database, and the
\* whole pipeline.
Roots == { ProcessZipArchives(folder_of_zips), ClusterAisClean(folder_of_zips) }

A1 == join(folder_of_zips, <<"a1", ".", "zip">>)
A2 == join(folder_of_zips, <<"a2", ".", "zip">>)

\* What is on disk before the first run: the folder of zips and its
\* entries; the first archive holds one csv file and one other file, the
\* second one csv file.
InputFiles(entries, m1, m2) ==
    { folder_of_zips } \cup { join(folder_of_zips, e) : e \in entries }
    \cup { join(A1, n) : n \in m1 } \cup { join(A2, n) : n \in m2 }

EmptyStore ==
    /\ manifest = <<>>
    /\ dbTable = FALSE
    /\ dbRows = {}
    /\ dbSources = [n \in MemberNames |-> 0]
    /\ dbMarks = {}
    /\ dbIndexes = {}
    /\ dbClusters = 0
    /\ status = [t \in AllTasks |-> "new"]
    /\ dyn = [t \in AllTasks |-> {}]
    /\ emitted = [t \in AllTasks |-> {}]
    /\ ran = {}
    /\ run = NoRun
    /\ nruns = 0
    /\ ing = [c \in AllCsvPaths |-> Idle]
    /\ txn = [c \in AllCsvPaths |-> NoTxn]
    /\ environ = ConfiguredEnviron
    /\ lookup = NoLookup

Init ==
    /\ fs = InputFiles(FolderEntries,
                       { <<"x", ".", "csv">>, <<"n", ".", "txt">> }, { <<"y", ".", "csv">> })
    /\ EmptyStore

Results == { "ok", "fail" }

Next ==
    \/ \E root \in Roots, with_db \in BOOLEAN : Launch(root, with_db)
    \/ EndRun
    \/ \E z \in ArchivePaths, res \in Results \cup { "partial" } : UnzippedArchive_run(z, res)
    \/ \E z \in ArchivePaths : ProcessCsv_run(z)
    \/ \E z \in ArchivePaths : WriteCsvToDb_run(z)
    \/ \E c \in AllCsvPaths, res \in Results \cup { "partial" } : ValidMessages_run(c, res)
    \/ \E c \in AllCsvPaths, res \in Results : Ingest(c, res)
    \/ \E c \in AllCsvPaths, res \in Results : LoadCleanedAIS_run(c, res)
    \/ ProcessZipArchives_run(folder_of_zips)
    \/ MakeAllIndices_run(folder_of_zips)
    \/ \E i \in IndexSuffixes, res \in Results : RunQueryOnTable_run(i, res)
    \/ \E res \in Results : ClusterAisClean_run(folder_of_zips, res)

\* Runs, failures and kills of the pipeline over a folder of two archives.
Spec == Init /\ [][Next]_vars

\* The same runs over a folder with one archive that holds any of the
\* member names.
DiscoverInit ==
    /\ \E members \in SUBSET MemberNames :
          fs = InputFiles({ <<"a1", ".", "zip">>, <<"notes", ".", "txt">> }, members, {})
    /\ EmptyStore

DiscoverSpec == DiscoverInit /\ [][Next]_vars

\* Runs in which the only external action that fails is the extraction of
\* the first archive, no process is killed, and a run ends when the worker
\* has nothing left to run.  The workers run every task that is ready.
Finish == Quiescent /\ EndRun

IsolatedBodies ==
    \/ \E res \in Results \cup { "partial" } : UnzippedArchive_run(A1, res)
    \/ UnzippedArchive_run(A2, "ok")
    \/ \E z \in ArchivePaths : ProcessCsv_run(z)
    \/ \E z \in ArchivePaths : WriteCsvToDb_run(z)
    \/ \E c \in AllCsvPaths : ValidMessages_run(c, "ok")
    \/ \E c \in AllCsvPaths : Ingest(c, "ok")
    \/ \E c \in AllCsvPaths : LoadCleanedAIS_run(c, "ok")
    \/ ProcessZipArchives_run(folder_of_zips)
    \/ MakeAllIndices_run(folder_of_zips)
    \/ \E i \in IndexSuffixes : RunQueryOnTable_run(i, "ok")
    \/ ClusterAisClean_run(folder_of_zips, "ok")

IsolatedNext ==
    \/ \E root \in Roots, with_db \in BOOLEAN : Launch(root, with_db)
    \/ Finish
    \/ IsolatedBodies

IsolationSpec == Init /\ [][IsolatedNext]_vars /\ WF_vars(IsolatedBodies)

(***************************************************************************)
(* Claims about ValidMessagesToDatabase.run, checked under IngestSpec.     *)
(***************************************************************************)
IngestMarked(f) == update_id(ValidMessagesToDatabase(f)) \in dbMarks

Finished(f) == ing[f].pc \in { "done", "failed" }

\* C1 (atomic ingest): in every state of the committed store, also after a
\* crash between the COPY and the commit, the marker of
\* ValidMessagesToDatabase(F) is visible if and only if F's rows are; and a
\* transaction holds the marker only when it holds the rows of a COPY that
\* succeeded in the same execution, so one commit makes both visible.
C1_AtomicIngest ==
    \A f \in AllCsvPaths :
        /\ IngestMarked(f) <=> f \in dbRows
        /\ txn[f].mark => txn[f].rows

\* One file is committed with marker and rows while the other has copied and
\* touched but not committed: nothing of it is visible.
C1_Witness ==
    \E f, g \in AllCsvPaths :
        /\ IngestMarked(f) /\ f \in dbRows
        /\ txn[g].rows /\ txn[g].mark /\ ing[g].pc = "commit"
        /\ ~ IngestMarked(g) /\ g \notin dbRows

C3_BoundedRetry ==
    \A f \in AllCsvPaths :
        /\ ing[f].copies <= 2
        /\ ing[f].creates <= 1
        /\ (ing[f].creates = 1) => ing[f].cold
        /\ (ing[f].err = "copy" /\ ~ ing[f].cold) =>
                (ing[f].copies = 1 /\ ing[f].creates = 0 /\ ing[f].pc = "failed")
        /\ (ing[f].err = "copy" /\ ing[f].cold) =>
                (ing[f].copies = 2 /\ ing[f].creates = 1 /\ ing[f].pc = "failed")
        /\ (ing[f].pc = "failed") => (~ IngestMarked(f) /\ f \notin dbRows)

\* The retried COPY failed: two attempts, one create_table, nothing committed.
C3_Witness ==
    \E f \in AllCsvPaths :
        /\ ing[f].pc = "failed" /\ ing[f].err = "copy" /\ ing[f].cold
        /\ ing[f].copies = 2 /\ ing[f].creates = 1
        /\ ~ IngestMarked(f) /\ f \notin dbRows

(***************************************************************************)
(* Claims about runs of the pipeline.                                      *)
(***************************************************************************)
\* The completion marker of a task: a marker row or a path.
marker(t) == IF t.kind \in DbKinds THEN update_id(t) ELSE output(t)

\* The csv files of an archive, by the path they are extracted to.
ArchiveCsv(z) == { join(unzipped_dir(z), n) : n \in { m \in listdir(z) : m \in CsvNames } }

Parents == { t \in AllTasks :
               t.kind \in { "ProcessCsv", "WriteCsvToDb", "ProcessZipArchives", "MakeAllIndices" } }

\* C4 (idempotency and resumption): in every run, whatever the earlier runs
\* did and however they ended, no task whose marker was present when the
\* run started has its body executed; and when the marker of the root task
\* was present, no body at all is executed.
C4_Idempotent ==
    /\ \A t \in ran : marker(t) \notin run.marks
    /\ (run.phase = "running" /\ marker(run.root) \in run.marks) => ran = {}

\* A later run resumes: the ingest of a file was complete when the run
\* started and the run executes the provenance of that file.
C4_Witness ==
    \E c \in AllCsvPaths :
        /\ nruns >= 2 /\ run.phase = "running"
        /\ marker(ValidMessagesToDatabase(c)) \in run.marks
        /\ LoadCleanedAIS(c) \in ran

\* C5 (fan-out completeness), under DiscoverSpec: once ProcessCsv or
\* WriteCsvToDb of an archive is complete, for an extracted directory with N
\* names ending in ".csv" and any other names, the batch it yielded has
\* exactly N children, one for each csv name and none for another name, and
\* its manifest lists exactly the paths of the N csv files.
C5_FanOut ==
    \A t \in { ProcessCsv(A1), WriteCsvToDb(A1) } :
        complete(t) =>
            LET dir == unzipped_dir(A1)
                csv == listdir(dir) \cap CsvNames
                child(n) == IF t.kind = "ProcessCsv"
                            THEN ValidMessages(join(dir, n))
                            ELSE LoadCleanedAIS(join(dir, n))
            IN  /\ Cardinality(emitted[t]) = Cardinality(csv)
                /\ \A n \in listdir(dir) : (n \in csv) <=> (child(n) \in emitted[t])
                /\ manifest[output(t)] = { join(dir, n) : n \in csv }

\* Both discovery tasks are complete over a directory of two csv files and
\* two other files.
C5_Witness ==
    /\ listdir(unzipped_dir(A1)) = MemberNames
    /\ complete(ProcessCsv(A1)) /\ complete(WriteCsvToDb(A1))
    /\ Cardinality(emitted[ProcessCsv(A1)]) = 2

ChainDone(z) ==
    /\ complete(UnzippedArchive(z))
    /\ complete(WriteCsvToDb(z))
    /\ \A c \in ArchiveCsv(z) :
          /\ complete(ValidMessages(c))
          /\ complete(ValidMessagesToDatabase(c))
          /\ complete(LoadCleanedAIS(c))

\* What is left of a run: a task not yet looked at counts 3, a pending task
\* that has not yielded 2, a pending task that waits for its children 1.
Rank ==
    3 * Cardinality({ t \in AllTasks : status[t] = "new" })
    + 2 * Cardinality({ t \in AllTasks : status[t] = "pending" /\ dyn[t] = {} })
    + Cardinality({ t \in AllTasks : status[t] = "pending" /\ dyn[t] # {} })

\* C6 (failure isolation), under IsolationSpec: every execution of a task
\* body brings the run closer to its end (Rank decreases, so with workers
\* that run every ready task the run eventually has no task left to run);
\* and a run with the database in which the extraction of the first archive
\* failed is not at its end before every task of the second archive's chain
\* (extraction, file discovery, validation, ingest and provenance of each of
\* its files) has its marker set.
C6_FailureIsolation ==
    /\ [][ (run.phase = "running" /\ run' = run) => Rank' < Rank ]_vars
    /\ []( (Quiescent /\ run.with_db /\ status[UnzippedArchive(A1)] = "failed")
            => ChainDone(A2) )

\* The first archive's extraction failed, nothing is left to run, and the
\* second archive's chain is complete while the first one's is not.
C6_Witness ==
    /\ Quiescent /\ run.with_db
    /\ status[UnzippedArchive(A1)] = "failed"
    /\ ArchiveCsv(A2) # {}
    /\ ChainDone(A2)
    /\ ~ complete(WriteCsvToDb(A1))

\* C7 (fan-in before parent marker): whenever the manifest of a parent
\* exists, the marker of every child of the batch it yielded exists.
C7_FanIn ==
    \A t \in Parents : complete(t) => \A c \in emitted[t] : complete(c)

\* The manifests of the index stage and of a file discovery exist, each
\* with the children it yielded.
C7_Witness ==
    /\ complete(MakeAllIndices(folder_of_zips))
    /\ Cardinality(emitted[MakeAllIndices(folder_of_zips)]) = 2
    /\ complete(WriteCsvToDb(A1))
    /\ emitted[WriteCsvToDb(A1)] # {}
    /\ complete(ProcessZipArchives(folder_of_zips))

\* C8 (per-file stage ordering): in every step, the body of the ingest of a
\* file starts only when the validation marker of the file exists, the body
\* of its provenance only when its ingest marker is committed, and no marker
\* of the three stages is ever lost.
C8_StageOrder ==
    [][ \A c \in AllCsvPaths :
          /\ (ValidMessagesToDatabase(c) \in ran' \ ran) => complete(ValidMessages(c))
          /\ (LoadCleanedAIS(c) \in ran' \ ran) => complete(ValidMessagesToDatabase(c))
          /\ complete(ValidMessages(c)) => complete(ValidMessages(c))'
          /\ complete(ValidMessagesToDatabase(c)) => complete(ValidMessagesToDatabase(c))'
          /\ complete(LoadCleanedAIS(c)) => complete(LoadCleanedAIS(c))'
      ]_vars

\* A file went through the three stages in one run.
C8_Witness ==
    \E c \in AllCsvPaths :
        /\ { ValidMessages(c), ValidMessagesToDatabase(c), LoadCleanedAIS(c) } \subseteq ran
        /\ complete(ValidMessages(c))
        /\ complete(ValidMessagesToDatabase(c))
        /\ complete(LoadCleanedAIS(c))

\* C9 as claimed (indices only after full ingest): in a run of
\* ClusterAisClean launched as documented (no --with_db), a CREATE INDEX is
\* issued only when every csv file of every archive of the folder has its
\* ingest and provenance markers.
C9_IndicesAfterIngest ==
    (/\ run.phase = "running"
     /\ run.root = ClusterAisClean(folder_of_zips)
     /\ ~ run.with_db
     /\ \E t \in ran : t.kind = "RunQueryOnTable")
    => \A z \in ArchivePaths : \A c \in ArchiveCsv(z) :
           /\ complete(ValidMessagesToDatabase(c))
           /\ complete(LoadCleanedAIS(c))

\* C10 (cluster is terminal and runs once): the body of ClusterAisClean is
\* executed only when the MakeAllIndices manifest and the marker of every
\* index child exist, and over all runs at most one CLUSTER is committed,
\* together with the marker of the task.
C10_ClusterOnce ==
    /\ dbClusters <= 1
    /\ (dbClusters = 1) <=> complete(ClusterAisClean(folder_of_zips))
    /\ (ClusterAisClean(folder_of_zips) \in ran) =>
           /\ complete(MakeAllIndices(folder_of_zips))
           /\ \A i \in IndexSuffixes : complete(RunQueryOnTable(index_update_id(i)))

\* The pipeline is run again after the CLUSTER was committed.
C10_Witness ==
    /\ dbClusters = 1
    /\ complete(ClusterAisClean(folder_of_zips))
    /\ nruns >= 2 /\ run.phase = "running"
    /\ run.root = ClusterAisClean(folder_of_zips)

(***************************************************************************)
(* Runs over a folder whose two archives each hold a file named x.csv.     *)
(***************************************************************************)
SameNameInit ==
    /\ fs = InputFiles(FolderEntries, { <<"x", ".", "csv">> }, { <<"x", ".", "csv">> })
    /\ EmptyStore

SameNameSpec == SameNameInit /\ [][Next]_vars

\* The tasks the scheduler has looked at in this run.
Instantiated == { t \in AllTasks : status[t] # "new" }

\* C11 as claimed (one writer per marker), under SameNameSpec: any two
\* distinct tasks of a run have distinct completion markers, and in the first
\* run the cleaned file of a csv file is present only when the validation of
\* that very file was executed.
C11_OneWriterPerMarker ==
    /\ \A t, u \in Instantiated : t # u => marker(t) # marker(u)
    /\ \A c \in AllCsvPaths :
          (nruns = 1 /\ run.phase = "running" /\ status[ValidMessages(c)] = "done")
              => ValidMessages(c) \in ran

\* C12 as claimed (provenance exactly once), under SameNameSpec: for every
\* csv file F of an archive of the folder, the marker of LoadCleanedAIS(F) is
\* visible if and only if exactly one ais_sources row with the base name of F
\* as its filename is visible, and there is never more than one such row.
C12_ProvenanceOnce ==
    \A c \in UNION { ArchiveCsv(z) : z \in ArchivePaths } :
        /\ complete(LoadCleanedAIS(c)) <=> (dbSources[basename(c)] = 1)
        /\ dbSources[basename(c)] <= 1

\* The discovery task that emits the chain of the files of archive z in this
\* run.
Emitter(z) == IF run.with_db THEN WriteCsvToDb(z) ELSE ProcessCsv(z)

\* C13 (failure propagation): when the validation of a file failed in a run,
\* the bodies of the ingest and the provenance of that file are not executed
\* in that run, the manifest of the discovery task that emitted the file's
\* chain and the one of the folder are not written, and the bodies of
\* MakeAllIndices and ClusterAisClean are not executed.
C13_FailurePropagation ==
    \A z \in ArchivePaths : \A n \in MemberNames :
        LET c == join(unzipped_dir(z), n)
        IN  (status[ValidMessages(c)] = "failed") =>
                /\ ValidMessagesToDatabase(c) \notin ran
                /\ LoadCleanedAIS(c) \notin ran
                /\ ~ complete(Emitter(z))
                /\ status[Emitter(z)] # "done"
                /\ ~ complete(ProcessZipArchives(folder_of_zips))
                /\ MakeAllIndices(folder_of_zips) \notin ran
                /\ ClusterAisClean(folder_of_zips) \notin ran

\* A run of the whole pipeline with the database has nothing left to run:
\* the validation of the first archive's file failed, its chain stopped
\* there, and the second archive's chain is complete.
C13_Witness ==
    /\ Quiescent /\ run.with_db
    /\ run.root = ClusterAisClean(folder_of_zips)
    /\ \E c \in ArchiveCsv(A1) :
          /\ status[ValidMessages(c)] = "failed"
          /\ status[LoadCleanedAIS(c)] = "pending"
    /\ WriteCsvToDb(A1) \in ran
    /\ ChainDone(A2)

\* C14 as claimed (manifest written unconditionally): a run in which the body
\* of ProcessZipArchives was executed ends, when nothing is left to run, with
\* the manifest of the folder written, whatever became of the children.
C14_ManifestUnconditional ==
    (Quiescent /\ ProcessZipArchives(folder_of_zips) \in ran)
        => complete(ProcessZipArchives(folder_of_zips))

\* C14 as amended: a run in which the body of ProcessZipArchives was executed
\* ends with the manifest of the folder written exactly when every
\* archive-chain child the body yielded is complete; when a child did not
\* complete, the body is never taken past its yield and the manifest is not
\* written in that run.
C14_ManifestAfterChildren ==
    (Quiescent /\ ProcessZipArchives(folder_of_zips) \in ran)
        => (complete(ProcessZipArchives(folder_of_zips))
              <=> \A c \in emitted[ProcessZipArchives(folder_of_zips)] : complete(c))

\* A run has nothing left to run, the body of ProcessZipArchives yielded two
\* children, the chain of one of them failed, and the manifest is not written.
C14_Witness ==
    /\ Quiescent
    /\ ProcessZipArchives(folder_of_zips) \in ran
    /\ Cardinality(emitted[ProcessZipArchives(folder_of_zips)]) = 2
    /\ \E c \in emitted[ProcessZipArchives(folder_of_zips)] : ~ complete(c)
    /\ \E t \in AllTasks : status[t] = "failed"
    /\ ~ complete(ProcessZipArchives(folder_of_zips))

\* C15 as claimed (archive manifest content): the manifest written by
\* ProcessZipArchives lists exactly the entries of the folder that end in
\* ".zip", the ones a child was yielded for, and no other entry.
C15_ManifestListsArchives ==
    LET t == ProcessZipArchives(folder_of_zips)
    IN  (output(t) \in DOMAIN manifest) =>
            /\ manifest[output(t)] =
                  { a \in { join(folder_of_zips, e) : e \in listdir(folder_of_zips) } :
                        splitext(basename(a))[2] = ZipExt }
            /\ manifest[output(t)] = { c.arg : c \in emitted[t] }

\* C16 as claimed (no marker without output): the output directory of
\* UnzippedArchive exists only when the extraction succeeded and every member
\* of the archive is in it, and the cleaned file of ValidMessages exists only
\* when the validator succeeded.
C16_NoMarkerWithoutOutput ==
    /\ \A z \in ArchivePaths :
          complete(UnzippedArchive(z)) =>
              /\ status[UnzippedArchive(z)] # "failed"
              /\ \A n \in listdir(z) : join(unzipped_dir(z), n) \in fs
    /\ \A c \in AllCsvPaths :
          complete(ValidMessages(c)) => status[ValidMessages(c)] # "failed"

\* C17 as claimed (connection discipline), under IngestSpec: every execution
\* of ValidMessagesToDatabase.run that has ended, by returning or by raising,
\* has closed its connection and left nothing uncommitted in it.
C17_ConnectionDiscipline ==
    \A f \in AllCsvPaths :
        Finished(f) => (ing[f].conn = "closed" /\ txn[f] = NoTxn)

IndexChild(i) == RunQueryOnTable(index_update_id(i))

\* C18 (index creation is idempotent): whenever the body of MakeAllIndices
\* has run, it yielded one RunQueryOnTable child per index definition, each
\* identified by <table>_<suffix>; an index exists in the store exactly when
\* the marker of its child does, so an existing index is a complete child;
\* and in no step of any run is a CREATE INDEX issued (the body of a child
\* executed) for an index that exists.
C18_IndexIdempotent ==
    /\ []( (emitted[MakeAllIndices(folder_of_zips)] # {}) =>
              /\ emitted[MakeAllIndices(folder_of_zips)] = { IndexChild(i) : i \in IndexSuffixes }
              /\ Cardinality(emitted[MakeAllIndices(folder_of_zips)]) = Cardinality(IndexSuffixes) )
    /\ []( \A i \in IndexSuffixes :
              (index_name(i) \in dbIndexes) <=> complete(IndexChild(i)) )
    /\ [][ \A i \in IndexSuffixes :
              (IndexChild(i) \in ran' \ ran) => index_name(i) \notin dbIndexes ]_vars

\* A later run creates the index whose creation failed before, and does not
\* execute the child of the index that was already there when it started.
C18_Witness ==
    \E i, j \in IndexSuffixes :
        /\ i # j
        /\ nruns >= 2 /\ run.phase = "running"
        /\ marker(IndexChild(i)) \in run.marks
        /\ IndexChild(i) \notin ran
        /\ IndexChild(j) \in ran
        /\ marker(IndexChild(j)) \notin run.marks
        /\ { index_name(i), index_name(j) } \subseteq dbIndexes

\* C19 as claimed (concurrent cold-start ingest), under IngestSpec: when the
\* first COPY of an execution found no table and another task committed the
\* table before the execution called create_table, the table counts as
\* present and create_table does not fail the execution.
C19_ConcurrentColdStart ==
    \A g \in AllCsvPaths :
        (ing[g].cold /\ ing[g].dup /\ Finished(g)) => ing[g].err # "create"

\* C20 as claimed (database flag and completion): whenever a run of
\* ProcessZipArchives with the database reports the folder task done, every
\* csv file of every archive of the folder has its ingest and provenance
\* markers, whatever runs came before.
C20_DatabaseFlag ==
    (/\ run.phase = "running"
     /\ run.root = ProcessZipArchives(folder_of_zips)
     /\ run.with_db
     /\ status[ProcessZipArchives(folder_of_zips)] = "done")
    => \A z \in ArchivePaths : \A c \in ArchiveCsv(z) :
           /\ complete(ValidMessagesToDatabase(c))
           /\ complete(LoadCleanedAIS(c))

(***************************************************************************)
(* Runs in which no external action is made to fail and no process is      *)
(* killed: every body ends the way its statements allow, a run ends when    *)
(* the worker has nothing left to run, and the workers run every task that  *)
(* is ready.                                                               *)
(***************************************************************************)
FairBodies ==
    \/ \E z \in ArchivePaths : UnzippedArchive_run(z, "ok")
    \/ \E z \in ArchivePaths : ProcessCsv_run(z)
    \/ \E z \in ArchivePaths : WriteCsvToDb_run(z)
    \/ \E c \in AllCsvPaths : ValidMessages_run(c, "ok")
    \/ \E c \in AllCsvPaths : Ingest(c, "ok")
    \/ \E c \in AllCsvPaths : LoadCleanedAIS_run(c, "ok")
    \/ ProcessZipArchives_run(folder_of_zips)
    \/ MakeAllIndices_run(folder_of_zips)
    \/ \E i \in IndexSuffixes : RunQueryOnTable_run(i, "ok")
    \/ ClusterAisClean_run(folder_of_zips, "ok")

FairNext ==
    \/ \E root \in Roots, with_db \in BOOLEAN : Launch(root, with_db)
    \/ Finish
    \/ FairBodies

FairSpec == Init /\ [][FairNext]_vars /\ WF_vars(FairBodies)

NoFailure == \A t \in AllTasks : status[t] # "failed"

\* C21 (pipeline liveness), under FairSpec: a first run of ClusterAisClean
\* with the database eventually has nothing left to run, with the marker of
\* ClusterAisClean set; every execution of a task body brings a run closer
\* to its end (Rank decreases); a parent that waits for children which are
\* all complete is ready to run; the body of ClusterAisClean is executed only
\* when every other task of the run is done; and any run of ClusterAisClean
\* with the database in which nothing failed is at its end only with the
\* marker of every task of the run set, the one of ClusterAisClean included.
C21_PipelineLiveness ==
    /\ (run.phase = "running" /\ nruns = 1 /\ run.with_db
            /\ run.root = ClusterAisClean(folder_of_zips))
          ~> (Quiescent /\ complete(ClusterAisClean(folder_of_zips)))
    /\ [][ (run.phase = "running" /\ run' = run) => Rank' < Rank ]_vars
    /\ []( \A t \in Parents :
              (status[t] = "pending" /\ dyn[t] # {} /\ \A c \in dyn[t] : complete(c))
                  => Runnable(t) )
    /\ []( (ClusterAisClean(folder_of_zips) \in ran) =>
              \A t \in Instantiated \ { ClusterAisClean(folder_of_zips) } : status[t] = "done" )
    /\ []( (/\ Quiescent
            /\ run.root = ClusterAisClean(folder_of_zips)
            /\ run.with_db
            /\ NoFailure)
           => /\ \A t \in Instantiated : complete(t)
              /\ complete(ClusterAisClean(folder_of_zips)) )

\* A first run of the whole pipeline with the database is at its end: both
\* archives' chains, the indices and the cluster are marked, and the body of
\* every task of the run that is not an input was executed.
C21_Witness ==
    /\ Quiescent /\ nruns = 1 /\ NoFailure
    /\ run.root = ClusterAisClean(folder_of_zips) /\ run.with_db
    /\ ChainDone(A1) /\ ChainDone(A2)
    /\ complete(MakeAllIndices(folder_of_zips))
    /\ complete(ClusterAisClean(folder_of_zips))
    /\ ran = { t \in Instantiated :
                  t.kind \notin { "GetZipArchive", "GetFolderOfArchives", "GetCsvFile" } }
    /\ Cardinality(ran) = 15

(***************************************************************************)
(* The configuration helpers on their own: any environment over the five   *)
(* names, each helper called with each argument its callers give it.       *)
(***************************************************************************)
\* The folder arguments of get_working_folder: none, as output() and
\* setup_working_folder call it, or a folder of archives.
FolderArgs == { <<>>, << folder_of_zips >>, << << <<"data">>, <<"ais">>, <<"zips">> >> >> }

ConfigInit ==
    /\ fs = {}
    /\ manifest = <<>>
    /\ dbTable = FALSE
    /\ dbRows = {}
    /\ dbSources = [n \in MemberNames |-> 0]
    /\ dbMarks = {}
    /\ dbIndexes = {}
    /\ dbClusters = 0
    /\ status = [t \in AllTasks |-> "new"]
    /\ dyn = [t \in AllTasks |-> {}]
    /\ emitted = [t \in AllTasks |-> {}]
    /\ ran = {}
    /\ run = NoRun
    /\ nruns = 0
    /\ ing = [c \in AllCsvPaths |-> Idle]
    /\ txn = [c \in AllCsvPaths |-> NoTxn]
    /\ \E present \in SUBSET EnvNames : environ \in [present -> EnvValues]
    /\ lookup = NoLookup

\* A caller reads one configured value (lines 131-132, 337-340, 432-435,
\* 562-565, 587-590, 627-630).
ReadEnvironmentVariable(name) ==
    /\ lookup' = [fn |-> "get_environment_variable", arg |-> <<name>>,
                  result |-> get_environment_variable(name)]
    /\ UNCHANGED <<fileVars, dbVars, runVars, ingVars, environ>>

\* A caller asks for the working folder (lines 131, 240, 278, 314, 484, 538,
\* 618: always without a folder).
ReadWorkingFolder(folder) ==
    /\ lookup' = [fn |-> "get_working_folder", arg |-> folder,
                  result |-> get_working_folder(folder)]
    /\ UNCHANGED <<fileVars, dbVars, runVars, ingVars, environ>>

ConfigNext ==
    \/ \E name \in EnvNames : ReadEnvironmentVariable(name)
    \/ \E folder \in FolderArgs : ReadWorkingFolder(folder)

ConfigSpec == ConfigInit /\ [][ConfigNext]_vars

\* C22 (missing configuration is never fatal): no call of a configuration
\* helper raises, whatever the environment holds and also when
\* get_working_folder is called without a folder; and a lookup of a name the
\* environment does not hold logs an error and gives the empty string.
C22_MissingConfigNeverFatal ==
    /\ lookup.result.raised = "none"
    /\ (lookup.fn = "get_environment_variable" /\ lookup.arg[1] \notin DOMAIN environ)
          => (lookup.result.value = <<>> /\ lookup.result.logged)
    /\ (lookup.fn = "get_working_folder" /\ "LUIGIWORK" \notin DOMAIN environ)
          => lookup.result.logged

\* What does hold of get_environment_variable alone.
C22_LookupNeverRaises ==
    lookup.fn = "get_environment_variable"
        => /\ lookup.result.raised = "none"
           /\ lookup.arg[1] \notin DOMAIN environ
                 => (lookup.result.value = <<>> /\ lookup.result.logged)

\* Where get_working_folder raises: exactly when LUIGIWORK is absent or
\* empty and no folder is given.
C22_RaisesWithoutFolder ==
    lookup.fn = "get_working_folder"
        => (lookup.result.raised = "RuntimeError"
               <=> /\ lookup.arg = <<>>
                   /\ ("LUIGIWORK" \notin DOMAIN environ \/ environ["LUIGIWORK"] = <<>>))

====
